---- MODULE Spec2Model ----
(***************************************************************************)
(* EcoAgent: the consumption-to-impact scoring engine                      *)
(* (agent/sustainability_analyzer.py, agent/fetchai_agent.py), the web     *)
(* application's averaging of consumption records (app.py,                 *)
(* agent/agent_core.py), and its requests: the session, the login and      *)
(* callback handlers, the users and consumption_data tables (app.py,       *)
(* auth.py, agent_routes.py, database.py).                                 *)
(*                                                                         *)
(* Numbers.  The source computes on Python floats.  The model computes on  *)
(* exact integers: usage values are integers, an emission factor is an     *)
(* integer number of 0.004 lb (0.92 lb = 230 units), a diet multiplier an  *)
(* integer number of fifths (0.4 = 2 fifths), so a carbon footprint is an  *)
(* integer number of 1/FootprintUnitsPerTon tons.  int(x) of the source is *)
(* truncation toward zero of the exact quotient (PyInt); round(x, n) is    *)
(* the nearest integer of the exact quotient in units of the last digit,   *)
(* either neighbour when the quotient lies exactly halfway (PyRound).      *)
(***************************************************************************)
EXTENDS Integers, Sequences, FiniteSets, TLC

VARIABLES
    self,        \* the SustainabilityAnalyzer instance's attributes
    data,        \* the record handed to the engine
    result,      \* outcome of the last evaluation of `data`
    remembered,  \* an earlier evaluation kept for comparison (history)
    consumption_data,  \* a user's ConsumptionData rows, as the query returns them
    now,         \* datetime.now(), in days
    stats,       \* outcome of the last statistics computation over the rows
    calls,       \* per thread: the analyze() call it is in, its locals, its outcome
    session,     \* the Flask session of the browser
    clock,       \* datetime.now().timestamp(), in seconds
    users,       \* the users table
    consumption_rows,  \* the consumption_data table
    created,     \* each existing consumption row as it was inserted (history)
    response,    \* the last request: its route, what it returned, what it called
    hit_recorded, \* when login() last recorded a rate-limit hit (history)
    gemini,      \* what the Gemini model answers to the successive send_message calls
    chat,        \* one _generate_chat_response call: where it is, what it did
    session_state, \* st.session_state of one browser session
    exchanges,   \* the codes exchange_code_for_token was called with (history)
    page_run,    \* the last run of the page: its code, what init_auth did
    agent,       \* the EcoAgent instance's _running and _process
    agent_threads, \* the threads the instance created, and whether each is alive
    agent_call,  \* the last start() or stop() call that returned
    inbox,       \* the AgentMailClient's self.inbox (0 is None)
    inboxes,     \* how many inboxes the service created for the client (history)
    senders,     \* per coroutine: where its _send_message is, its local inbox
    messages     \* the inbox of every message sent (history)

vars ==
    <<self, data, result, remembered, consumption_data, now, stats, calls,
      session, clock, users, consumption_rows, created, response, hit_recorded,
      gemini, chat, session_state, exchanges, page_run, agent, agent_threads,
      agent_call, inbox, inboxes, senders, messages>>
engine_vars == <<self, data, result, remembered>>
stats_vars == <<consumption_data, now, stats>>
thread_vars == <<calls>>
db_vars == <<users, consumption_rows, created>>
web_vars == <<session, clock, db_vars, response, hit_recorded>>
chat_vars == <<gemini, chat>>
streamlit_vars == <<session_state, exchanges, page_run>>
process_vars == <<agent, agent_threads, agent_call>>
mail_vars == <<inbox, inboxes, senders, messages>>
service_vars == <<chat_vars, streamlit_vars, process_vars, mail_vars>>

----------------------------------------------------------------------------
(* A dictionary entry: key missing, key present with None, or a number.    *)
Absent == [kind |-> "absent", val |-> 0]
Null == [kind |-> "null", val |-> 0]
Num(n) == [kind |-> "num", val |-> n]

DietAbsent == "<absent>"
DietNull == "<null>"
DietNames == {"Meat Daily", "Meat Weekly", "Vegetarian", "Vegan"}

UsageFields == {"electricity", "gas", "water", "car_miles", "public_transport"}

Max(a, b) == IF a >= b THEN a ELSE b
Min(a, b) == IF a <= b THEN a ELSE b

(* Python int() of the float num/den (den > 0): truncation toward zero.    *)
PyInt(num, den) == IF num >= 0 THEN num \div den ELSE -((-num) \div den)

(* `key in data` and `data.get(key, 0)`.                                   *)
Has(d, f) == d[f].kind # "absent"
IsNone(d, f) == d[f].kind = "null"

GetDefaultHigh(d, f) == IF d[f].kind = "num" THEN d[f].val ELSE 14000

Get0(d, f) == IF d[f].kind = "num" THEN d[f].val ELSE 0

----------------------------------------------------------------------------
(* SustainabilityAnalyzer.__init__: emission factors (units of 0.004 lb    *)
(* CO2) and monthly national averages.                                     *)
FootprintUnitsPerTon == 2500000

SelfInit ==
    [ELECTRICITY_CO2_PER_KWH |-> 230,
     GAS_CO2_PER_THERM |-> 2925,
     CAR_CO2_PER_MILE |-> 101,
     PUBLIC_TRANSPORT_CO2_PER_MILE |-> 35,
     AVG_ELECTRICITY |-> 877,
     AVG_GAS |-> 63,
     AVG_WATER |-> 7000,
     AVG_CAR_MILES |-> 1000,
     AVG_PUBLIC_TRANSPORT |-> 150]

diet_multipliers_swapped(diet) ==
    CASE diet = "Meat Daily" -> 5
      [] diet = "Meat Weekly" -> 4
      [] diet = "Vegetarian" -> 2
      [] diet = "Vegan" -> 3
      [] OTHER -> 5

(* diet_multipliers.get(diet, 1.0), in fifths.                             *)
diet_multipliers(diet) ==
    CASE diet = "Meat Daily" -> 5
      [] diet = "Meat Weekly" -> 4
      [] diet = "Vegetarian" -> 3
      [] diet = "Vegan" -> 2
      [] OTHER -> 5

(* diet_scores.get(diet, 0).                                               *)
diet_scores(diet) ==
    CASE diet = "Vegan" -> 10
      [] diet = "Vegetarian" -> 7
      [] diet = "Meat Weekly" -> 3
      [] diet = "Meat Daily" -> 0
      [] OTHER -> 0

----------------------------------------------------------------------------
(* Outcome of one evaluation.  status "ok" carries a report; any other     *)
(* status is the name of the exception that left the engine.               *)
NoMetrics == [electricity |-> 0, water |-> 0, car_miles |-> 0, public_transport |-> 0]

NoResult ==
    [engine |-> "none", status |-> "none", carbon_footprint |-> 0, energy_score |-> 0,
     vs_average |-> NoMetrics, z_score |-> NoMetrics, recommendations |-> <<>>]

Raised(engine, exc) == [NoResult EXCEPT !.engine = engine, !.status = exc]

(* SustainabilityAnalyzer._calculate_percentile: the z-score numerator     *)
(* value - average (over std_dev); norm.cdf of it is a fixed increasing    *)
(* function and is not evaluated here.                                     *)
_calculate_percentile(value, average) == value - average

(* SustainabilityAnalyzer._calculate_carbon_footprint.  data[k] * factor   *)
(* raises TypeError when the key is present with None.                     *)
FootprintRaises(d) ==
    \E f \in {"electricity", "gas", "car_miles", "public_transport"} : IsNone(d, f)

total_co2(s, d) ==
    (IF Has(d, "electricity") THEN d.electricity.val * s.ELECTRICITY_CO2_PER_KWH ELSE 0)
    + (IF Has(d, "gas") THEN d.gas.val * s.GAS_CO2_PER_THERM ELSE 0)
    + (IF Has(d, "car_miles") THEN d.car_miles.val * s.CAR_CO2_PER_MILE ELSE 0)
    + (IF Has(d, "public_transport")
         THEN d.public_transport.val * s.PUBLIC_TRANSPORT_CO2_PER_MILE ELSE 0)

_calculate_carbon_footprint(s, d) ==
    IF d.diet # DietAbsent THEN total_co2(s, d) * diet_multipliers(d.diet)
    ELSE total_co2(s, d) * 5

DeductionOfShortfall(cap, usage, average) ==
    Max(0, Min(cap, PyInt(cap * (average - usage), average)))

DeductionUncapped(cap, usage, average) ==
    Max(0, PyInt(cap * (usage - average), average))

(* max(0, min(cap, int(cap * (usage / average - 1)))).                     *)
Deduction(cap, usage, average) ==
    Max(0, Min(cap, PyInt(cap * (usage - average), average)))

(* transport_ratio = public_transport / (car_miles + 0.1); the bonus is    *)
(* min(10, int(10 * transport_ratio)) when transport_ratio > 0.5.          *)
TransportBonus(car, pt) ==
    IF 20 * pt > 10 * car + 1 THEN Min(10, PyInt(100 * pt, 10 * car + 1)) ELSE 0

(* SustainabilityAnalyzer._calculate_energy_score.                         *)
EnergyScoreRaises(d) ==
    \/ \E f \in {"electricity", "gas", "water"} : IsNone(d, f)
    \/ /\ Has(d, "car_miles") /\ Has(d, "public_transport")
       /\ (IsNone(d, "car_miles") \/ IsNone(d, "public_transport"))

RawEnergyScore(s, d) ==
    100
    - (IF Has(d, "electricity") THEN Deduction(30, d.electricity.val, s.AVG_ELECTRICITY) ELSE 0)
    - (IF Has(d, "gas") THEN Deduction(20, d.gas.val, s.AVG_GAS) ELSE 0)
    - (IF Has(d, "water") THEN Deduction(20, d.water.val, s.AVG_WATER) ELSE 0)
    + (IF Has(d, "car_miles") /\ Has(d, "public_transport")
         THEN TransportBonus(d.car_miles.val, d.public_transport.val) ELSE 0)
    + (IF d.diet # DietAbsent THEN diet_scores(d.diet) ELSE 0)

NoClamp(score) == score

Clamp(score) == Max(0, Min(100, score))

_calculate_energy_score(s, d) == Clamp(RawEnergyScore(s, d))

(* SustainabilityAnalyzer._generate_recommendations.  data.get(k, 0) > AVG *)
(* raises TypeError when the key is present with None.  A recommendation   *)
(* is its category, its title and the excess its texts are formatted from. *)
RecommendationsRaise(d) ==
    \E f \in {"electricity", "water", "car_miles"} : IsNone(d, f)

Rec(category, title, excess) == [category |-> category, title |-> title, excess |-> excess]

RecommendationsWaterLast(s, d) ==
    (IF Get0(d, "electricity") > s.AVG_ELECTRICITY
       THEN <<Rec("energy", "Reduce Electricity Usage", d.electricity.val - s.AVG_ELECTRICITY)>>
       ELSE <<>>)
    \o (IF Get0(d, "car_miles") > s.AVG_CAR_MILES
          THEN <<Rec("transportation", "Optimize Transportation",
                     d.car_miles.val - s.AVG_CAR_MILES)>>
          ELSE <<>>)
    \o (IF d.diet = "Meat Daily"
          THEN <<Rec("lifestyle", "Consider Plant-Based Meals", 0)>>
          ELSE <<>>)
    \o (IF Get0(d, "water") > s.AVG_WATER
          THEN <<Rec("water", "Reduce Water Consumption", d.water.val - s.AVG_WATER)>>
          ELSE <<>>)

_generate_recommendations(s, d) ==
    (IF Get0(d, "electricity") > s.AVG_ELECTRICITY
       THEN <<Rec("energy", "Reduce Electricity Usage", d.electricity.val - s.AVG_ELECTRICITY)>>
       ELSE <<>>)
    \o (IF Get0(d, "water") > s.AVG_WATER
          THEN <<Rec("water", "Reduce Water Consumption", d.water.val - s.AVG_WATER)>>
          ELSE <<>>)
    \o (IF Get0(d, "car_miles") > s.AVG_CAR_MILES
          THEN <<Rec("transportation", "Optimize Transportation",
                     d.car_miles.val - s.AVG_CAR_MILES)>>
          ELSE <<>>)
    \o (IF d.diet = "Meat Daily"
          THEN <<Rec("lifestyle", "Consider Plant-Based Meals", 0)>>
          ELSE <<>>)

(* SustainabilityAnalyzer.analyze: percentiles of electricity, water and   *)
(* car_miles first, then footprint, score, comparative metrics and         *)
(* recommendations; the first TypeError leaves the call.                   *)
AnalyzeRaises(d) ==
    \/ \E f \in {"electricity", "water", "car_miles"} : IsNone(d, f)
    \/ FootprintRaises(d)
    \/ EnergyScoreRaises(d)
    \/ IsNone(d, "public_transport")
    \/ RecommendationsRaise(d)

analyze(s, d) ==
    IF AnalyzeRaises(d) THEN Raised("analyzer", "TypeError")
    ELSE [engine |-> "analyzer",
          status |-> "ok",
          carbon_footprint |-> _calculate_carbon_footprint(s, d),
          energy_score |-> _calculate_energy_score(s, d),
          vs_average |->
              [electricity |-> (Get0(d, "electricity") - s.AVG_ELECTRICITY) * 100,
               water |-> (Get0(d, "water") - s.AVG_WATER) * 100,
               car_miles |-> (Get0(d, "car_miles") - s.AVG_CAR_MILES) * 100,
               public_transport |->
                   (Get0(d, "public_transport") - s.AVG_PUBLIC_TRANSPORT) * 100],
          z_score |->
              [electricity |-> _calculate_percentile(Get0(d, "electricity"), s.AVG_ELECTRICITY),
               water |-> _calculate_percentile(Get0(d, "water"), s.AVG_WATER),
               car_miles |-> _calculate_percentile(Get0(d, "car_miles"), s.AVG_CAR_MILES),
               public_transport |-> 0],
          recommendations |-> _generate_recommendations(s, d)]

----------------------------------------------------------------------------
(* FetchAIAgent._analyze_sustainability.  Its input is a SustainabilityData*)
(* (electricity, gas, car_miles, public_transport: float, diet_type: str,  *)
(* all required, no water field); the constants are locals of the method.  *)
IsSustainabilityData(d) ==
    /\ \A f \in {"electricity", "gas", "car_miles", "public_transport"} : d[f].kind = "num"
    /\ d.diet \notin {DietAbsent, DietNull}

FetchRec(title, excess) == [title |-> title, excess |-> excess]

_analyze_sustainability(d) ==
    LET AVG_ELECTRICITY == 877
        AVG_GAS == 63
        AVG_CAR_MILES == 1000
        ELECTRICITY_CO2_PER_KWH == 230
        GAS_CO2_PER_THERM == 2925
        CAR_CO2_PER_MILE == 101
        PUBLIC_TRANSPORT_CO2_PER_MILE == 35
        base_co2 == d.electricity.val * ELECTRICITY_CO2_PER_KWH
                    + d.gas.val * GAS_CO2_PER_THERM
                    + d.car_miles.val * CAR_CO2_PER_MILE
                    + d.public_transport.val * PUBLIC_TRANSPORT_CO2_PER_MILE
        \* the vs_avg percentages, times the average
        electricity_vs_avg == (d.electricity.val - AVG_ELECTRICITY) * 100
        car_vs_avg == (d.car_miles.val - AVG_CAR_MILES) * 100
        score == 100
                 - (IF d.electricity.val > AVG_ELECTRICITY
                      THEN Min(30, PyInt(30 * (d.electricity.val - AVG_ELECTRICITY),
                                         AVG_ELECTRICITY))
                      ELSE 0)
                 - (IF d.gas.val > AVG_GAS
                      THEN Min(20, PyInt(20 * (d.gas.val - AVG_GAS), AVG_GAS))
                      ELSE 0)
                 + TransportBonus(d.car_miles.val, d.public_transport.val)
                 + diet_scores(d.diet)
    IN  [engine |-> "fetchai",
         status |-> "ok",
         carbon_footprint |-> base_co2 * diet_multipliers(d.diet),
         energy_score |-> Max(0, Min(100, score)),
         vs_average |-> [NoMetrics EXCEPT !.electricity = electricity_vs_avg,
                                          !.car_miles = car_vs_avg],
         z_score |-> NoMetrics,
         recommendations |->
             (IF electricity_vs_avg > 10 * AVG_ELECTRICITY
                THEN <<FetchRec("High Electricity Usage Detected",
                                d.electricity.val - AVG_ELECTRICITY)>>
                ELSE <<>>)
             \o (IF car_vs_avg > 20 * AVG_CAR_MILES
                   THEN <<FetchRec("Consider Alternative Transportation",
                                   d.car_miles.val - AVG_CAR_MILES)>>
                   ELSE <<>>)
             \o (IF d.diet = "Meat Daily"
                   THEN <<FetchRec("Explore Plant-Based Options", 0)>>
                   ELSE <<>>)]

----------------------------------------------------------------------------
(* Inputs of the engine.                                                   *)
ExtremeUsage == 1000000
ElectricityValues == {-5, 0, 920, 1200, 1754, ExtremeUsage}
GasValues == {0, 100, 126}
WaterValues == {0, 7001, 14000}
CarMilesValues == {0, 1150, 1500}
PublicTransportValues == {0, 1000}
Diets == {DietAbsent, DietNull, "Keto"} \cup DietNames

Entries(values) == {Absent, Null} \cup {Num(n) : n \in values}

Records ==
    [electricity : Entries(ElectricityValues),
     gas : Entries(GasValues),
     water : Entries(WaterValues),
     car_miles : Entries(CarMilesValues),
     public_transport : Entries(PublicTransportValues),
     diet : Diets]

NoRecord ==
    [electricity |-> Absent, gas |-> Absent, water |-> Absent, car_miles |-> Absent,
     public_transport |-> Absent, diet |-> DietAbsent]

(* History: an earlier evaluation (its record and outcome), and whether a  *)
(* different record has been evaluated since.                              *)
NoMemory == [data |-> NoRecord, result |-> NoResult, between |-> FALSE]

Observe(m, d) ==
    IF m.result.engine # "none" /\ m.data # d THEN [m EXCEPT !.between = TRUE] ELSE m

NoStats ==
    [source |-> "none", found |-> FALSE, window |-> <<>>,
     carbon |-> [electricity |-> [num |-> 0, den |-> 1], gas |-> [num |-> 0, den |-> 1],
                 car_miles |-> [num |-> 0, den |-> 1],
                 public_transport |-> [num |-> 0, den |-> 1]],
     carbon_footprint |-> 0, energy_usage |-> 0, water_usage |-> 0, miles_traveled |-> 0,
     latest_data |-> [electricity |-> 0, gas |-> 0, water |-> 0, car_miles |-> 0],
     trends |-> [electricity |-> "none", gas |-> "none", water |-> "none",
                 car_miles |-> "none"]]

NoRows ==
    /\ consumption_data = <<>>
    /\ now = 0
    /\ stats = NoStats

(* The web application before its first request: an empty session, empty  *)
(* tables (Base.metadata.create_all), the clock at some date of 2023.      *)
NoUser == "<none>"
EmptySession == [user |-> NoUser, last_login |-> Absent, rate_limit_hit |-> Absent]
NoResponse == [route |-> "none", status |-> "none", ran |-> FALSE, called |-> {}]
ClockValues == {1700000000, 1700000030, 1700000060, 1700086400, 1700086430}

NoRequests ==
    /\ session = EmptySession
    /\ clock = 1700000000
    /\ users = {}
    /\ consumption_rows = {}
    /\ created = {}
    /\ response = NoResponse
    /\ hit_recorded = Absent

(* The threads that may be inside analyze() of one analyzer, and the frame  *)
(* of a call: where it is, its argument, its locals, what it returned.     *)
NumThreads == 2
Threads == 1..NumThreads

IdleCall ==
    [pc |-> "idle", data |-> NoRecord, z_score |-> NoMetrics, carbon_footprint |-> 0,
     energy_score |-> 0, vs_average |-> NoMetrics, result |-> NoResult]

NoCalls == calls = [t \in Threads |-> IdleCall]

(* A call of _generate_chat_response that has not begun: the attempts made  *)
(* (retry_count, sent), what happened in order (events), what it returned. *)
NoChat ==
    [pc |-> "start", retry_count |-> 0, sent |-> 0, events |-> <<>>,
     returned |-> "<nothing>", raised |-> FALSE]

(* st.session_state of a new browser session, and no page run yet.  A key  *)
(* that is not in the session state is Missing; None is a value.           *)
Missing == "<missing>"
NoneValue == "<None>"
NoCode == "<no code>"

NewSessionState ==
    [user |-> FALSE, db_session |-> FALSE, last_auth_code |-> Missing,
     last_processed_code |-> Missing]

NoPageRun == [code |-> NoCode, exchanged |-> FALSE, again |-> FALSE, outcome |-> "none"]

NoPages ==
    /\ session_state = NewSessionState
    /\ exchanges = {}
    /\ page_run = NoPageRun

(* EcoAgent.__init__: no thread yet (_process None is 0; a thread is named *)
(* by its position among the threads created).                             *)
NoProcess == 0

NoAgent ==
    /\ agent = [_running |-> FALSE, _process |-> NoProcess]
    /\ agent_threads = <<>>
    /\ agent_call = [op |-> "none", join |-> "none"]

(* AgentMailClient.__init__: no inbox; the coroutines that may be inside   *)
(* _send_message on the one event loop, none of them started.              *)
NumSenders == 2
Senders == 1..NumSenders

IdleSender == [pc |-> "idle", inbox |-> 0, outcome |-> "none"]

NoMail ==
    /\ inbox = 0
    /\ inboxes = 0
    /\ senders = [c \in Senders |-> IdleSender]
    /\ messages = {}

NoServices ==
    /\ gemini = <<>>
    /\ chat = NoChat
    /\ NoPages
    /\ NoAgent
    /\ NoMail

Init ==
    /\ self = SelfInit
    /\ data \in Records
    /\ result = NoResult
    /\ remembered = NoMemory
    /\ NoRows
    /\ NoCalls
    /\ NoRequests
    /\ NoServices

AnalyzeDataRebasing ==
    /\ result' = analyze(self, data)
    /\ self' = [self EXCEPT !.AVG_ELECTRICITY = 1000]
    /\ remembered' = Observe(remembered, data)
    /\ UNCHANGED <<data, stats_vars, thread_vars, web_vars, service_vars>>

(* EcoAgent.analyze_data: one evaluation of the record by the analyzer.    *)
AnalyzeData ==
    /\ result' = analyze(self, data)
    /\ remembered' = Observe(remembered, data)
    /\ UNCHANGED <<self, data, stats_vars, thread_vars, web_vars, service_vars>>

(* handle_sustainability_query: one evaluation by the Fetch.ai variant.    *)
HandleSustainabilityQuery ==
    /\ IsSustainabilityData(data)
    /\ result' = _analyze_sustainability(data)
    /\ remembered' = Observe(remembered, data)
    /\ UNCHANGED <<self, data, stats_vars, thread_vars, web_vars, service_vars>>

Next == AnalyzeData \/ HandleSustainabilityQuery

Spec == Init /\ [][Next]_vars

----------------------------------------------------------------------------
(* Sequences of evaluations: the engine is called again and again, with    *)
(* the same or another record, and a caller keeps an earlier report.       *)
PairRecords ==
    [electricity : {Absent, Num(0), Num(1200)},
     gas : {Absent, Num(0)},
     water : {Absent},
     car_miles : {Num(0), Num(1500)},
     public_transport : {Num(0)},
     diet : {DietAbsent} \cup DietNames]

InitPairs ==
    /\ self = SelfInit
    /\ data \in PairRecords
    /\ result = NoResult
    /\ remembered = NoMemory
    /\ NoRows
    /\ NoCalls
    /\ NoRequests
    /\ NoServices

(* The next request: another record reaches the engine.                    *)
NewRecord ==
    /\ data' \in PairRecords
    /\ result' = NoResult
    /\ UNCHANGED <<self, remembered, stats_vars, thread_vars, web_vars, service_vars>>

(* The caller keeps the report it was returned.                            *)
Remember ==
    /\ result.engine # "none"
    /\ remembered' = [data |-> data, result |-> result, between |-> FALSE]
    /\ UNCHANGED <<self, data, result, stats_vars, thread_vars, web_vars, service_vars>>

NextPairs == AnalyzeData \/ HandleSustainabilityQuery \/ NewRecord \/ Remember

SpecPairs == InitPairs /\ [][NextPairs]_vars

----------------------------------------------------------------------------
(* Statistics over a user's stored rows.  A ConsumptionData row has a      *)
(* timestamp (days) and nullable Float columns; NULL is Null.              *)
OrZero(x) == IF x.kind = "num" THEN x.val ELSE 0
Truthy(x) == x.kind = "num" /\ x.val # 0

RECURSIVE SumOrZero(_, _)
SumOrZero(rows, f) ==
    IF rows = <<>> THEN 0 ELSE OrZero(Head(rows)[f]) + SumOrZero(Tail(rows), f)

(* round(x, digits) of the float x = num/den, in units of the last digit: *)
(* the nearest integer.  When the exact quotient lies halfway, the float   *)
(* lies on either side of it and the result is either neighbour (tie_up).  *)
PyRound(num, den, tie_up) ==
    LET q == num \div den
        r == num - q * den
    IN  IF 2 * r < den THEN q
        ELSE IF 2 * r > den THEN q + 1
        ELSE IF tie_up THEN q + 1 ELSE q

(* sorted(rows, key=timestamp, reverse=True): stable, newest first.        *)
InsertDesc(sorted, x) ==
    LET k == Cardinality({i \in 1..Len(sorted) : sorted[i].timestamp >= x.timestamp})
    IN  SubSeq(sorted, 1, k) \o <<x>> \o SubSeq(sorted, k + 1, Len(sorted))

RECURSIVE SortDescFrom(_, _)
SortDescFrom(sorted, rows) ==
    IF rows = <<>> THEN sorted
    ELSE SortDescFrom(InsertDesc(sorted, Head(rows)), Tail(rows))

SortedByTimestampDesc(rows) == SortDescFrom(<<>>, rows)

Take(rows, n) == SubSeq(rows, 1, Min(n, Len(rows)))

(* next((value(d) for d in rows if test(d)), 0)                            *)
RECURSIVE FirstTruthy(_, _)
FirstTruthy(rows, f) ==
    IF rows = <<>> THEN 0
    ELSE IF Truthy(Head(rows)[f]) THEN Head(rows)[f].val
    ELSE FirstTruthy(Tail(rows), f)

RECURSIVE FirstMiles(_)
FirstMiles(rows) ==
    IF rows = <<>> THEN 0
    ELSE IF Truthy(Head(rows).car_miles) \/ Truthy(Head(rows).public_transport)
      THEN OrZero(Head(rows).car_miles) + OrZero(Head(rows).public_transport)
    ELSE FirstMiles(Tail(rows))

(* A quotient kept exact.                                                  *)
Frac(num, den) == [num |-> num, den |-> den]

(* app.calculate_user_stats.  The per-field carbon contributions are in    *)
(* lb CO2 per month (factors 0.85, 11.7, 0.89, 0.14 as hundredths);         *)
(* carbon_footprint is round(monthly * 12 / 2000, 1), in tenths of a ton.  *)
calculate_user_stats(rows, tie_up) ==
    IF rows = <<>> THEN [NoStats EXCEPT !.source = "calculate_user_stats"]
    ELSE
    LET recent_data == Take(SortedByTimestampDesc(rows), 30)
        n == Len(recent_data)
        electricity_carbon == 85 * SumOrZero(recent_data, "electricity")
        gas_carbon == 1170 * SumOrZero(recent_data, "gas")
        car_carbon == 89 * SumOrZero(recent_data, "car_miles")
        transit_carbon == 14 * SumOrZero(recent_data, "public_transport")
        monthly_carbon == electricity_carbon + gas_carbon + car_carbon + transit_carbon
    IN  [source |-> "calculate_user_stats",
         found |-> TRUE,
         window |-> recent_data,
         carbon |-> [electricity |-> Frac(electricity_carbon, 100 * n),
                     gas |-> Frac(gas_carbon, 100 * n),
                     car_miles |-> Frac(car_carbon, 100 * n),
                     public_transport |-> Frac(transit_carbon, 100 * n)],
         carbon_footprint |-> PyRound(3 * monthly_carbon, 5000 * n, tie_up),
         energy_usage |->
             IF n = 1 THEN OrZero(recent_data[1].electricity)
             ELSE FirstTruthy(recent_data, "electricity"),
         water_usage |->
             IF n = 1 THEN OrZero(recent_data[1].water)
             ELSE FirstTruthy(recent_data, "water"),
         miles_traveled |->
             IF n = 1 THEN OrZero(recent_data[1].car_miles)
                           + OrZero(recent_data[1].public_transport)
             ELSE FirstMiles(recent_data),
         latest_data |-> NoStats.latest_data]

(* [d.f for d in rows if d.f]: the values that are neither None nor 0, in  *)
(* the order of the rows.                                                  *)
TruthyValues(rows, f) ==
    LET Kept(r) == Truthy(r[f])
        kept == SelectSeq(rows, Kept)
    IN  [i \in 1..Len(kept) |-> kept[i][f].val]

RECURSIVE SumSeq(_)
SumSeq(values) == IF values = <<>> THEN 0 ELSE Head(values) + SumSeq(Tail(values))

Reversed(values) == [i \in 1..Len(values) |-> values[Len(values) + 1 - i]]

(* Whether (second - first) / first * 100 exceeds percent, for the means   *)
(* first = a / h and second = b / k, computed exactly (a # 0).             *)
DiffPercentAbove(a, h, b, k, percent) ==
    IF a > 0 THEN (b * h - a * k) * 100 > percent * a * k
    ELSE (b * h - a * k) * 100 < percent * a * k

DiffPercentBelow(a, h, b, k, percent) ==
    IF a > 0 THEN (b * h - a * k) * 100 < percent * a * k
    ELSE (b * h - a * k) * 100 > percent * a * k

(* EcoAgent._calculate_trend: values[:n//2] against values[n//2:].         *)
_calculate_trend(values) ==
    IF Len(values) < 2 THEN "stable"
    ELSE LET h == Len(values) \div 2
             k == Len(values) - h
             a == SumSeq(SubSeq(values, 1, h))
             b == SumSeq(SubSeq(values, h + 1, Len(values)))
         IN  IF a = 0 THEN "ZeroDivisionError"
             ELSE IF DiffPercentAbove(a, h, b, k, 5) THEN "increasing"
             ELSE IF DiffPercentBelow(a, h, b, k, -5) THEN "decreasing"
             ELSE "stable"

(* agent_core.EcoAgent._get_user_consumption_data for an existing user:    *)
(* the rows of the last 30 days, newest first; latest_data holds           *)
(* round(total / total_days, 2), in hundredths.                            *)
WindowDays == 30

_get_user_consumption_data(rows, today, tie_up) ==
    LET InWindow(r) == r.timestamp >= today - WindowDays
        window == SortedByTimestampDesc(SelectSeq(rows, InWindow))
        total_days == Len(window)
    IN  IF window = <<>> THEN [NoStats EXCEPT !.source = "_get_user_consumption_data"]
        ELSE [NoStats EXCEPT
                 !.source = "_get_user_consumption_data",
                 !.found = TRUE,
                 !.window = window,
                 !.latest_data =
                     [electricity |->
                          PyRound(100 * SumOrZero(window, "electricity"), total_days, tie_up),
                      gas |-> PyRound(100 * SumOrZero(window, "gas"), total_days, tie_up),
                      water |-> PyRound(100 * SumOrZero(window, "water"), total_days, tie_up),
                      car_miles |->
                          PyRound(100 * SumOrZero(window, "car_miles"), total_days, tie_up)],
                 !.trends =
                     [electricity |-> _calculate_trend(TruthyValues(window, "electricity")),
                      gas |-> _calculate_trend(TruthyValues(window, "gas")),
                      water |-> _calculate_trend(TruthyValues(window, "water")),
                      car_miles |-> _calculate_trend(TruthyValues(window, "car_miles"))]]

(* Stored rows the statistics are computed from.                           *)
MaxRows == 2
Timestamps == {0, 20, 40}
NowValues == {45}

StoredRows ==
    [timestamp : Timestamps,
     electricity : {Null, Num(600), Num(1200)},
     gas : {Null, Num(50)},
     water : {Null},
     car_miles : {Null, Num(1500)},
     public_transport : {Null}]

RowLists == UNION {[1..n -> StoredRows] : n \in 0..MaxRows}

InitStats ==
    /\ self = SelfInit
    /\ data = NoRecord
    /\ result = NoResult
    /\ remembered = NoMemory
    /\ consumption_data \in RowLists
    /\ now \in NowValues
    /\ stats = NoStats
    /\ NoCalls
    /\ NoRequests
    /\ NoServices

(* dashboard / analytics: the statistics of the user's rows.               *)
CalculateUserStats ==
    /\ \E tie_up \in BOOLEAN : stats' = calculate_user_stats(consumption_data, tie_up)
    /\ UNCHANGED <<engine_vars, consumption_data, now, thread_vars, web_vars, service_vars>>

(* The chat agent loads the user's recent consumption.                     *)
GetUserConsumptionData ==
    /\ \E tie_up \in BOOLEAN :
          stats' = _get_user_consumption_data(consumption_data, now, tie_up)
    /\ UNCHANGED <<engine_vars, consumption_data, now, thread_vars, web_vars, service_vars>>

NextStats == CalculateUserStats \/ GetUserConsumptionData

SpecStats == InitStats /\ [][NextStats]_vars

----------------------------------------------------------------------------
(* Several threads inside SustainabilityAnalyzer.analyze of one analyzer.  *)
(* A call runs the statements of analyze in order; between two statements  *)
(* any other thread may run.  A TypeError leaves the call at once.         *)
ThreadRecords ==
    {NoRecord,
     [NoRecord EXCEPT !.electricity = Num(1200), !.gas = Num(0), !.water = Num(0),
                      !.car_miles = Num(1500), !.public_transport = Num(0),
                      !.diet = "Meat Daily"],
     [NoRecord EXCEPT !.electricity = Num(1754), !.water = Num(14000),
                      !.public_transport = Num(1000), !.diet = "Vegan"],
     [NoRecord EXCEPT !.electricity = Null, !.car_miles = Num(1150)],
     [NoRecord EXCEPT !.electricity = Num(920), !.gas = Null]}

Leave(c) == [c EXCEPT !.pc = "done", !.result = Raised("analyzer", "TypeError")]

ThreadStep(t, c) ==
    /\ calls' = [calls EXCEPT ![t] = c]
    /\ UNCHANGED <<engine_vars, stats_vars, web_vars, service_vars>>

(* A caller enters analyze(data).                                          *)
ThreadCall(t) ==
    /\ calls[t].pc = "idle"
    /\ \E d \in ThreadRecords :
         ThreadStep(t, [IdleCall EXCEPT !.pc = "percentiles", !.data = d])

(* electricity_percentile, water_percentile, transport_percentile.         *)
ThreadPercentiles(t) ==
    LET c == calls[t] IN
    /\ c.pc = "percentiles"
    /\ ThreadStep(t,
         IF \E f \in {"electricity", "water", "car_miles"} : IsNone(c.data, f) THEN Leave(c)
         ELSE [c EXCEPT !.pc = "footprint",
                 !.z_score =
                    [electricity |->
                         _calculate_percentile(Get0(c.data, "electricity"), self.AVG_ELECTRICITY),
                     water |-> _calculate_percentile(Get0(c.data, "water"), self.AVG_WATER),
                     car_miles |->
                         _calculate_percentile(Get0(c.data, "car_miles"), self.AVG_CAR_MILES),
                     public_transport |-> 0]])

ThreadFootprintRebasing(t) ==
    LET c == calls[t] IN
    /\ c.pc = "footprint"
    /\ calls' = [calls EXCEPT ![t] =
                   IF FootprintRaises(c.data) THEN Leave(c)
                   ELSE [c EXCEPT !.pc = "score",
                           !.carbon_footprint = _calculate_carbon_footprint(self, c.data)]]
    /\ self' = [self EXCEPT !.AVG_ELECTRICITY = Max(877, Get0(c.data, "electricity"))]
    /\ UNCHANGED <<data, result, remembered, stats_vars, web_vars, service_vars>>

(* 'carbon_footprint': self._calculate_carbon_footprint(data).             *)
ThreadFootprint(t) ==
    LET c == calls[t] IN
    /\ c.pc = "footprint"
    /\ ThreadStep(t,
         IF FootprintRaises(c.data) THEN Leave(c)
         ELSE [c EXCEPT !.pc = "score",
                 !.carbon_footprint = _calculate_carbon_footprint(self, c.data)])

(* 'energy_score': self._calculate_energy_score(data).                     *)
ThreadScore(t) ==
    LET c == calls[t] IN
    /\ c.pc = "score"
    /\ ThreadStep(t,
         IF EnergyScoreRaises(c.data) THEN Leave(c)
         ELSE [c EXCEPT !.pc = "metrics",
                 !.energy_score = _calculate_energy_score(self, c.data)])

(* 'comparative_metrics': the vs_average percentages.                      *)
ThreadMetrics(t) ==
    LET c == calls[t] IN
    /\ c.pc = "metrics"
    /\ ThreadStep(t,
         IF \E f \in {"electricity", "water", "car_miles", "public_transport"} :
                IsNone(c.data, f)
         THEN Leave(c)
         ELSE [c EXCEPT !.pc = "recommendations",
                 !.vs_average =
                    [electricity |-> (Get0(c.data, "electricity") - self.AVG_ELECTRICITY) * 100,
                     water |-> (Get0(c.data, "water") - self.AVG_WATER) * 100,
                     car_miles |-> (Get0(c.data, "car_miles") - self.AVG_CAR_MILES) * 100,
                     public_transport |->
                         (Get0(c.data, "public_transport") - self.AVG_PUBLIC_TRANSPORT) * 100]])

(* 'recommendations': self._generate_recommendations(data); return results.*)
ThreadRecommendations(t) ==
    LET c == calls[t] IN
    /\ c.pc = "recommendations"
    /\ ThreadStep(t,
         IF RecommendationsRaise(c.data) THEN Leave(c)
         ELSE [c EXCEPT !.pc = "done",
                 !.result =
                    [engine |-> "analyzer", status |-> "ok",
                     carbon_footprint |-> c.carbon_footprint,
                     energy_score |-> c.energy_score,
                     vs_average |-> c.vs_average,
                     z_score |-> c.z_score,
                     recommendations |-> _generate_recommendations(self, c.data)]])

(* The caller has taken the report; the thread is free for another call.   *)
ThreadReturn(t) ==
    /\ calls[t].pc = "done"
    /\ ThreadStep(t, IdleCall)

InitThreads ==
    /\ self = SelfInit
    /\ data = NoRecord
    /\ result = NoResult
    /\ remembered = NoMemory
    /\ NoRows
    /\ NoCalls
    /\ NoRequests
    /\ NoServices

NextThreads ==
    \E t \in Threads :
        \/ ThreadCall(t)
        \/ ThreadPercentiles(t)
        \/ ThreadFootprint(t)
        \/ ThreadScore(t)
        \/ ThreadMetrics(t)
        \/ ThreadRecommendations(t)
        \/ ThreadReturn(t)

SpecThreads == InitThreads /\ [][NextThreads]_vars

----------------------------------------------------------------------------
(* The Flask application (app.py, agent_routes.py, auth.py).  A request is *)
(* one step: the decorator, the handler body, its commits and its answer.  *)
(* What lies outside the program (Auth0, a failing database, the request's *)
(* parameters and body) is an input of the step.                           *)
AuthOutcomes == {"ok", "Too Many Requests", "error"}

Answer(route, status, ran, called) ==
    /\ response' = [route |-> route, status |-> status, ran |-> ran, called |-> called]
    /\ UNCHANGED <<engine_vars, stats_vars, thread_vars, service_vars, clock>>

(* A request answered before its handler body runs.                        *)
NoBody(route, status, s) ==
    /\ session' = s
    /\ Answer(route, status, FALSE, {})
    /\ UNCHANGED <<db_vars, hit_recorded>>

(* A handler body that answers without writing anything.                   *)
ReadOnly(route, status, called) ==
    /\ Answer(route, status, TRUE, called)
    /\ UNCHANGED <<session, db_vars, hit_recorded>>

(* Time passes between two requests.                                       *)
Tick(values) ==
    /\ clock' \in values
    /\ clock' > clock
    /\ UNCHANGED <<engine_vars, stats_vars, thread_vars, service_vars, session, db_vars,
                   response, hit_recorded>>

(* session.get('last_login', 0).                                           *)
LastLogin(s) == IF s.last_login.kind = "num" THEN s.last_login.val ELSE 0

(* app.login_required: f runs with a user in the session and a login of at *)
(* most 24 hours ago; a stale session is cleared.                          *)
login_required(route, f) ==
    IF session.user = NoUser THEN NoBody(route, "redirect:login", session)
    ELSE IF clock - LastLogin(session) > 24 * 60 * 60
           THEN NoBody(route, "redirect:login", EmptySession)
    ELSE f

(* auth.login_required, the decorator of agent_routes.py.                  *)
auth_login_required(route, f) ==
    IF session.user = NoUser THEN NoBody(route, "401", session)
    ELSE f

(* login(): the rate_limit_hit flag is honoured for 60 seconds.            *)
RateLimitActiveHalf(s, t) ==
    /\ s.rate_limit_hit.kind = "num"
    /\ s.rate_limit_hit.val # 0
    /\ t - s.rate_limit_hit.val < 30

RateLimitActive(s, t) ==
    /\ s.rate_limit_hit.kind = "num"
    /\ s.rate_limit_hit.val # 0
    /\ t - s.rate_limit_hit.val < 60

login(authorize) ==
    IF RateLimitActive(session, clock)
    THEN ReadOnly("login", "Rate Limit Active", {})
    ELSE LET popped ==
                 IF session.rate_limit_hit.kind = "num" /\ session.rate_limit_hit.val # 0
                 THEN [session EXCEPT !.rate_limit_hit = Absent] ELSE session
         IN  /\ UNCHANGED db_vars
             /\ CASE authorize = "ok" ->
                       /\ session' = popped
                       /\ hit_recorded' = hit_recorded
                       /\ Answer("login", "redirect:authorize", TRUE, {"authorize_redirect"})
                  [] authorize = "Too Many Requests" ->
                       /\ session' = [popped EXCEPT !.rate_limit_hit = Num(clock)]
                       /\ hit_recorded' = Num(clock)
                       /\ Answer("login", "Rate Limit Exceeded", TRUE, {"authorize_redirect"})
                  [] OTHER ->
                       /\ session' = popped
                       /\ hit_recorded' = hit_recorded
                       /\ Answer("login", "Login Error", TRUE, {"authorize_redirect"})

ErrorPage(outcome) ==
    IF outcome = "Too Many Requests" THEN "Rate Limit Exceeded" ELSE "Authentication Error"

callback_clearing_first(code, error, token, userinfo, sub) ==
    IF ~code \/ error THEN ReadOnly("callback", "Authentication Error", {})
    ELSE /\ UNCHANGED <<db_vars, hit_recorded>>
         /\ IF token # "ok"
            THEN /\ session' = EmptySession
                 /\ Answer("callback", ErrorPage(token), TRUE, {"get_token"})
            ELSE IF userinfo # "ok"
            THEN /\ session' = EmptySession
                 /\ Answer("callback", ErrorPage(userinfo), TRUE, {"get_token", "get_userinfo"})
            ELSE /\ session' = [user |-> sub, last_login |-> Num(clock),
                                rate_limit_hit |-> Absent]
                 /\ Answer("callback", "redirect:dashboard", TRUE,
                           {"get_token", "get_userinfo"})

(* callback(): code and error are the request's parameters, token and      *)
(* userinfo the outcomes of the two Auth0 requests, sub the user Auth0     *)
(* names.                                                                  *)
callback(code, error, token, userinfo, sub) ==
    IF ~code \/ error THEN ReadOnly("callback", "Authentication Error", {})
    ELSE IF token # "ok" THEN ReadOnly("callback", ErrorPage(token), {"get_token"})
    ELSE IF userinfo # "ok"
           THEN ReadOnly("callback", ErrorPage(userinfo), {"get_token", "get_userinfo"})
    ELSE /\ session' = [user |-> sub, last_login |-> Num(clock), rate_limit_hit |-> Absent]
         /\ Answer("callback", "redirect:dashboard", TRUE, {"get_token", "get_userinfo"})
         /\ UNCHANGED <<db_vars, hit_recorded>>

(* logout().                                                               *)
logout ==
    /\ session' = EmptySession
    /\ Answer("logout", "redirect:logout", TRUE, {})
    /\ UNCHANGED <<db_vars, hit_recorded>>

(* data_entry(), settings(), chat(): a template behind login_required.     *)
PageRoutes == {"data_entry", "settings", "chat"}

Page(route) ==
    /\ login_required(route, ReadOnly(route, "200", {}))

(* The tables.  A users row is its id and auth0_id; a consumption row its  *)
(* id, user_id, timestamp and the six data columns.  A new row takes the   *)
(* next rowid of its table.                                                *)
Subs == {"auth0|a", "github|b"}

Ids(table) == {r.id : r \in table}

NextId(table) ==
    IF table = {} THEN 1 ELSE (CHOOSE i \in Ids(table) : \A j \in Ids(table) : j <= i) + 1

(* query(User).filter_by(auth0_id=sub).first(), as a set of at most one.   *)
UserOf(sub) == {u \in users : u.auth0_id = sub}

RowsOf(table, user_id) == {r \in table : r.user_id = user_id}

(* The history of the rows that still exist.                               *)
StillExisting(history, table) == {c \in history : c.id \in Ids(table)}

(* dashboard(): the user's row is created when it is missing; the page     *)
(* shows the statistics of the user's rows.                                *)
dashboard(db_ok, max_id) ==
    /\ login_required("dashboard",
        IF UserOf(session.user) # {} THEN ReadOnly("dashboard", "200", {})
        ELSE IF ~db_ok THEN ReadOnly("dashboard", "redirect:login", {})
        ELSE /\ NextId(users) <= max_id
             /\ users' = users \cup {[id |-> NextId(users), auth0_id |-> session.user]}
             /\ Answer("dashboard", "200", TRUE, {})
             /\ UNCHANGED <<session, consumption_rows, created, hit_recorded>>)

analytics_storing_zeros ==
    /\ login_required("analytics",
        IF UserOf(session.user) = {} THEN ReadOnly("analytics", "redirect:login", {})
        ELSE /\ consumption_rows' =
                  {IF r.gas = Null THEN [r EXCEPT !.gas = Num(0)] ELSE r :
                     r \in consumption_rows}
             /\ Answer("analytics", "200", TRUE, {})
             /\ UNCHANGED <<session, users, created, hit_recorded>>)

(* analytics().                                                            *)
analytics ==
    /\ login_required("analytics",
        IF UserOf(session.user) = {} THEN ReadOnly("analytics", "redirect:login", {})
        ELSE ReadOnly("analytics", "200", {}))

(* analyze(): session['user'] is the Auth0 userinfo, which has no 'id';    *)
(* the KeyError leaves the handler.                                        *)
analyze_route ==
    /\ login_required("analyze", ReadOnly("analyze", "500", {}))

(* get_insights() of agent_routes.py.                                      *)
get_insights(insights_ok) ==
    /\ auth_login_required("get_insights",
        IF UserOf(session.user) = {} THEN ReadOnly("get_insights", "404", {})
        ELSE ReadOnly("get_insights", IF insights_ok THEN "200" ELSE "500", {}))

(* The JSON body of add_consumption: per key absent, null, a number, a     *)
(* numeric string or something float() rejects; json is FALSE when the     *)
(* request carries no JSON at all.                                         *)
Text(n) == [kind |-> "text", val |-> n]
Bad == [kind |-> "bad", val |-> 0]
BodyFields == UsageFields \cup {"household_size"}

EmptyBody ==
    [json |-> TRUE, electricity |-> Absent, gas |-> Absent, water |-> Absent,
     car_miles |-> Absent, public_transport |-> Absent, household_size |-> Absent]

NoJson == [EmptyBody EXCEPT !.json = FALSE]

Bodies ==
    {NoJson,
     EmptyBody,
     [EmptyBody EXCEPT !.electricity = Num(1200), !.gas = Null, !.water = Text(7000),
                       !.public_transport = Num(0), !.household_size = Num(3)],
     [EmptyBody EXCEPT !.electricity = Num(-5)],
     [EmptyBody EXCEPT !.electricity = Num(1200), !.gas = Bad]}

(* `if field in data and data[field] is not None`, then float(data[field]).*)
Provided(body, f) == body[f].kind \notin {"absent", "null"}

StoredZeroForMissing(body, f) == IF Provided(body, f) THEN Num(body[f].val) ELSE Num(0)

Stored(body, f) == IF Provided(body, f) THEN Num(body[f].val) ELSE Null

(* The ConsumptionData row built from the converted fields.                *)
NewRow(id, user_id, body) ==
    [id |-> id, user_id |-> user_id, timestamp |-> clock,
     electricity |-> Stored(body, "electricity"),
     gas |-> Stored(body, "gas"),
     water |-> Stored(body, "water"),
     car_miles |-> Stored(body, "car_miles"),
     public_transport |-> Stored(body, "public_transport"),
     household_size |-> Null]

(* add_consumption().  request.json raises without a JSON body and the     *)
(* outer handler answers 500; db_ok is whether add, flush and commit work. *)
add_consumption(body, db_ok, max_id) ==
    /\ login_required("add_consumption",
        IF ~body.json THEN ReadOnly("add_consumption", "500", {})
        ELSE IF \A f \in BodyFields : body[f] = Absent
               THEN ReadOnly("add_consumption", "400", {})
        ELSE IF UserOf(session.user) = {} THEN ReadOnly("add_consumption", "404", {})
        ELSE IF \E f \in UsageFields : body[f].kind = "bad"
               THEN ReadOnly("add_consumption", "400", {})
        ELSE IF ~db_ok THEN ReadOnly("add_consumption", "500", {})
        ELSE LET user == CHOOSE u \in UserOf(session.user) : TRUE
                 row == NewRow(NextId(consumption_rows), user.id, body)
             IN  /\ row.id <= max_id
                 /\ consumption_rows' = consumption_rows \cup {row}
                 /\ created' = StillExisting(created, consumption_rows) \cup {row}
                 /\ Answer("add_consumption", "success", TRUE, {})
                 /\ UNCHANGED <<session, users, hit_recorded>>)

delete_user_data_clearing_first(data_ok, auth0_ok, commit_ok) ==
    /\ login_required("delete_user_data",
        IF UserOf(session.user) = {} THEN ReadOnly("delete_user_data", "404", {})
        ELSE LET user == CHOOSE u \in UserOf(session.user) : TRUE
                 others == consumption_rows \ RowsOf(consumption_rows, user.id)
             IN  /\ session' = EmptySession
                 /\ hit_recorded' = hit_recorded
                 /\ IF data_ok /\ auth0_ok /\ commit_ok
                    THEN /\ users' = users \ {user}
                         /\ consumption_rows' = others
                         /\ created' = StillExisting(created, others)
                         /\ Answer("delete_user_data", "success", TRUE, {"delete_auth0_user"})
                    ELSE /\ UNCHANGED db_vars
                         /\ Answer("delete_user_data", "500", TRUE, {}))

(* delete_user_data().  data_ok: the first transaction (the user's rows)   *)
(* commits; auth0_ok: delete_auth0_user returns; commit_ok: the final      *)
(* commit (remaining rows and the user) works.                             *)
delete_user_data(data_ok, auth0_ok, commit_ok) ==
    /\ login_required("delete_user_data",
        IF UserOf(session.user) = {} THEN ReadOnly("delete_user_data", "404", {})
        ELSE IF ~data_ok THEN ReadOnly("delete_user_data", "500", {})
        ELSE LET user == CHOOSE u \in UserOf(session.user) : TRUE
                 others == consumption_rows \ RowsOf(consumption_rows, user.id)
                 remaining_data == RowsOf(others, user.id)
                 users_after == users \ {user}
                 rows_after == others \ remaining_data
                 remaining_user == {u \in users_after : u.auth0_id = session.user}
             IN  IF ~auth0_ok \/ ~commit_ok
                 THEN /\ consumption_rows' = others
                      /\ created' = StillExisting(created, others)
                      /\ Answer("delete_user_data", "500", TRUE, {"delete_auth0_user"})
                      /\ UNCHANGED <<session, users, hit_recorded>>
                 ELSE /\ users' = users_after
                      /\ consumption_rows' = rows_after
                      /\ created' = StillExisting(created, rows_after)
                      /\ hit_recorded' = hit_recorded
                      /\ IF remaining_user # {} \/ RowsOf(rows_after, user.id) # {}
                         THEN /\ session' = session
                              /\ Answer("delete_user_data", "500", TRUE,
                                        {"delete_auth0_user"})
                         ELSE /\ session' = EmptySession
                              /\ Answer("delete_user_data", "success", TRUE,
                                        {"delete_auth0_user"}))

InitWeb ==
    /\ self = SelfInit
    /\ data = NoRecord
    /\ result = NoResult
    /\ remembered = NoMemory
    /\ NoRows
    /\ NoCalls
    /\ NoRequests
    /\ NoServices

(* One browser and its session over a day: every route, one user, one      *)
(* request body, the clock at the instants the 60 second and 24 hour       *)
(* windows turn on.                                                        *)
NextSession ==
    \/ Tick(ClockValues)
    \/ \E authorize \in AuthOutcomes : login(authorize)
    \/ \E code, error \in BOOLEAN, token, userinfo \in AuthOutcomes :
         callback(code, error, token, userinfo, "auth0|a")
    \/ logout
    \/ \E route \in PageRoutes : Page(route)
    \/ \E db_ok \in BOOLEAN : dashboard(db_ok, 1)
    \/ analytics
    \/ analyze_route
    \/ \E insights_ok \in BOOLEAN : get_insights(insights_ok)
    \/ \E db_ok \in BOOLEAN :
         add_consumption([EmptyBody EXCEPT !.electricity = Num(1200)], db_ok, 1)
    \/ \E data_ok, auth0_ok, commit_ok \in BOOLEAN :
         delete_user_data(data_ok, auth0_ok, commit_ok)

SpecSession == InitWeb /\ [][NextSession]_vars

(* The tables under the requests of two users: every request body, every   *)
(* database failure, ids up to MaxId, two instants.                        *)
MaxId == 2

NextStore ==
    \/ Tick({1700000030})
    \/ \E sub \in Subs : callback(TRUE, FALSE, "ok", "ok", sub)
    \/ \E db_ok \in BOOLEAN : dashboard(db_ok, MaxId)
    \/ analytics
    \/ analyze_route
    \/ \E body \in Bodies, db_ok \in BOOLEAN : add_consumption(body, db_ok, MaxId)
    \/ \E data_ok, auth0_ok, commit_ok \in BOOLEAN :
         delete_user_data(data_ok, auth0_ok, commit_ok)

SpecStore == InitWeb /\ [][NextStore]_vars

----------------------------------------------------------------------------
(* EcoAgent._generate_chat_response (agent/agent_core.py).  A step is what *)
(* the call does up to its next send_message or its return.  What the      *)
(* model answers to a send_message is an input: a text, an empty text, or  *)
(* an exception.                                                           *)
GeminiTexts == {"Use LED bulbs.", "Take the bus."}
GeminiOutcomes == GeminiTexts \cup {"", "exception"}

(* The answers offered to one call: more than it may ask for.              *)
MaxOffered == 4
Offered == [1..MaxOffered -> GeminiOutcomes]

max_retries == 3

Apology == "I apologize, but I encountered an issue generating a response."
ErrorText == "I apologize, but I encountered an error while processing your request"

ChatStep(c) ==
    /\ chat' = c
    /\ UNCHANGED <<engine_vars, stats_vars, thread_vars, web_vars, gemini, streamlit_vars,
                   process_vars, mail_vars>>

(* The outermost handler: whatever exception reaches it becomes a text.    *)
ReturnError(c) == [c EXCEPT !.pc = "done", !.returned = ErrorText]

RetryOnceMore(retry_count) == retry_count <= max_retries

(* retry_count < max_retries, as the loop and both branches test it.       *)
Retry(retry_count) == retry_count < max_retries

(* Lines 606-620: the user's data, the prompt, the model object.           *)
ChatPrepare(prepared) ==
    /\ chat.pc = "start"
    /\ ChatStep(IF prepared THEN [chat EXCEPT !.pc = "loop"] ELSE ReturnError(chat))

(* One pass of the while loop: send_message, then one of the branches.     *)
ChatAttempt ==
    /\ chat.pc = "loop"
    /\ Retry(chat.retry_count)
    /\ LET answer == IF chat.sent < Len(gemini) THEN gemini[chat.sent + 1] ELSE ""
           asked == [chat EXCEPT !.sent = @ + 1, !.events = Append(@, "send_message")]
           counted == [asked EXCEPT !.retry_count = @ + 1]
           slept == [counted EXCEPT !.events = Append(@, "sleep")]
       IN  ChatStep(
             IF answer \in GeminiTexts
             THEN [asked EXCEPT !.pc = "done", !.returned = answer]
             ELSE IF answer = ""
             THEN (IF Retry(counted.retry_count) THEN slept ELSE counted)
             ELSE (IF Retry(counted.retry_count) THEN slept ELSE ReturnError(counted)))

(* The loop ran out: the apology after the while loop.                     *)
ChatGiveUp ==
    /\ chat.pc = "loop"
    /\ ~Retry(chat.retry_count)
    /\ ChatStep([chat EXCEPT !.pc = "done", !.returned = Apology])

InitChat ==
    /\ self = SelfInit
    /\ data = NoRecord
    /\ result = NoResult
    /\ remembered = NoMemory
    /\ NoRows
    /\ NoCalls
    /\ NoRequests
    /\ gemini \in Offered
    /\ chat = NoChat
    /\ NoPages
    /\ NoAgent
    /\ NoMail

NextChat ==
    \/ \E prepared \in BOOLEAN : ChatPrepare(prepared)
    \/ ChatAttempt
    \/ ChatGiveUp

(* The call is running code: a step that can be taken is taken.            *)
SpecChat == InitChat /\ [][NextChat]_vars /\ WF_vars(NextChat)

----------------------------------------------------------------------------
(* The Streamlit page (main.py, auth.py).  A step is one run of the page   *)
(* script for one browser session: init_session_state, then init_auth.     *)
(* The code in the query parameters, what Auth0 and the database answer,   *)
(* and whether Sign Out was pressed are inputs of the run.                 *)
Codes == {"code A", "code B", "code C"}

(* main.init_session_state, as far as init_auth reads what it sets.        *)
init_session_state(s) ==
    IF s.last_auth_code = Missing THEN [s EXCEPT !.last_auth_code = NoneValue] ELSE s

(* Auth.handle_callback: the session state it leaves, what it returned,    *)
(* whether it called exchange_code_for_token.                              *)
handle_callback(s, code, token, profile, user) ==
    IF s.last_processed_code = code
    THEN [state |-> s, returned |-> TRUE, exchanged |-> FALSE]
    ELSE IF ~token \/ ~profile
    THEN [state |-> s, returned |-> FALSE, exchanged |-> TRUE]
    ELSE IF ~user
    THEN [state |-> [s EXCEPT !.db_session = TRUE], returned |-> FALSE, exchanged |-> TRUE]
    ELSE [state |-> [s EXCEPT !.db_session = TRUE, !.user = TRUE,
                               !.last_processed_code = code],
          returned |-> TRUE, exchanged |-> TRUE]

(* The Sign Out button of the sidebar.                                     *)
sign_out(s) ==
    [s EXCEPT !.user = FALSE, !.db_session = FALSE, !.last_auth_code = Missing]

(* init_auth: the callback when the code is not the last one seen, then    *)
(* the sidebar unless the run was restarted by st.rerun().                 *)
init_auth(s, code, token, profile, user, pressed) ==
    LET fresh == code # NoCode /\ s.last_auth_code # code
        seen == IF fresh THEN [s EXCEPT !.last_auth_code = code] ELSE s
        handled == IF fresh THEN handle_callback(seen, code, token, profile, user)
                   ELSE [state |-> seen, returned |-> FALSE, exchanged |-> FALSE]
        rerun == fresh /\ handled.returned
        after == handled.state
    IN  [state |-> IF ~rerun /\ after.user /\ pressed THEN sign_out(after) ELSE after,
         exchanged |-> handled.exchanged,
         outcome |-> IF rerun THEN "rerun"
                     ELSE IF fresh THEN "Authentication failed"
                     ELSE IF after.user /\ pressed THEN "signed out"
                     ELSE "page"]

PageRun(code, token, profile, user, pressed) ==
    LET ran == init_auth(init_session_state(session_state), code, token, profile, user,
                         pressed)
    IN  /\ session_state' = ran.state
        /\ exchanges' = IF ran.exchanged THEN exchanges \cup {code} ELSE exchanges
        /\ page_run' = [code |-> code, exchanged |-> ran.exchanged,
                        again |-> ran.exchanged /\ code \in exchanges,
                        outcome |-> ran.outcome]
        /\ UNCHANGED <<engine_vars, stats_vars, thread_vars, web_vars, chat_vars,
                       process_vars, mail_vars>>

InitPages ==
    /\ self = SelfInit
    /\ data = NoRecord
    /\ result = NoResult
    /\ remembered = NoMemory
    /\ NoRows
    /\ NoCalls
    /\ NoRequests
    /\ NoServices

NextPages ==
    \E code \in Codes \cup {NoCode}, token, profile, user, pressed \in BOOLEAN :
        PageRun(code, token, profile, user, pressed)

SpecPages == InitPages /\ [][NextPages]_vars

----------------------------------------------------------------------------
(* EcoAgent.start and EcoAgent.stop (agent_core.py, agent/agent_core.py).  *)
(* A call is one step.  A thread runs _run_agent, which never reads        *)
(* _running; whether agent.run() comes to an end, and whether it does so   *)
(* within the second that stop() waits, is outside the program.            *)
MaxAgentThreads == 5

AgentFrame ==
    UNCHANGED <<engine_vars, stats_vars, thread_vars, web_vars, chat_vars, streamlit_vars,
                mail_vars>>

start ==
    /\ agent._running \/ Len(agent_threads) < MaxAgentThreads
    /\ IF ~agent._running
       THEN /\ agent_threads' = Append(agent_threads, "alive")
            /\ agent' = [_running |-> TRUE, _process |-> Len(agent_threads) + 1]
       ELSE UNCHANGED <<agent, agent_threads>>
    /\ agent_call' = [op |-> "start", join |-> "none"]
    /\ AgentFrame

(* stop(): clears the flag, then join(timeout=1.0) on the thread.          *)
stop(ends) ==
    /\ IF agent._running
       THEN /\ agent' = [agent EXCEPT !._running = FALSE]
            /\ IF agent._process = NoProcess
               THEN /\ UNCHANGED agent_threads
                    /\ agent_call' = [op |-> "stop", join |-> "none"]
               ELSE IF agent_threads[agent._process] = "ended" \/ ends
               THEN /\ agent_threads' = [agent_threads EXCEPT ![agent._process] = "ended"]
                    /\ agent_call' = [op |-> "stop", join |-> "joined"]
               ELSE /\ UNCHANGED agent_threads
                    /\ agent_call' = [op |-> "stop", join |-> "timed out"]
       ELSE /\ UNCHANGED <<agent, agent_threads>>
            /\ agent_call' = [op |-> "stop", join |-> "none"]
    /\ AgentFrame

(* _run_agent returns: agent.run() ended or raised.                        *)
_run_agent(t) ==
    /\ agent_threads[t] = "alive"
    /\ agent_threads' = [agent_threads EXCEPT ![t] = "ended"]
    /\ UNCHANGED <<agent, agent_call>>
    /\ AgentFrame

InitAgent ==
    /\ self = SelfInit
    /\ data = NoRecord
    /\ result = NoResult
    /\ remembered = NoMemory
    /\ NoRows
    /\ NoCalls
    /\ NoRequests
    /\ NoServices

NextAgent ==
    \/ start
    \/ \E ends \in BOOLEAN : stop(ends)
    \/ \E t \in DOMAIN agent_threads : _run_agent(t)

SpecAgent == InitAgent /\ [][NextAgent]_vars

----------------------------------------------------------------------------
(* AgentMailClient (agent/agentmail_client.py).  send_report, send_eco_tips*)
(* and send_reminder each format a text and await _send_message; the       *)
(* coroutines share one event loop, so a step is what a coroutine does     *)
(* between two awaits that suspend it: the request to the service leaves   *)
(* at the end of one step, its answer opens the next.                      *)
MailFrame ==
    UNCHANGED <<engine_vars, stats_vars, thread_vars, web_vars, chat_vars, streamlit_vars,
                process_vars>>

SenderStep(c, frame) == senders' = [senders EXCEPT ![c] = frame]

(* _send_message up to its first request: the address check, then          *)
(* _ensure_inbox, which asks for an inbox when self.inbox is None.         *)
_send_message(c, valid) ==
    /\ senders[c].pc = "idle"
    /\ SenderStep(c, IF ~valid THEN [IdleSender EXCEPT !.pc = "done", !.outcome = "ValueError"]
                     ELSE IF inbox = 0 THEN [IdleSender EXCEPT !.pc = "inboxes.create"]
                     ELSE [IdleSender EXCEPT !.pc = "messages.send", !.inbox = inbox])
    /\ UNCHANGED <<inbox, inboxes, messages>>
    /\ MailFrame

(* inboxes.create answers: _ensure_inbox stores the inbox and returns      *)
(* self.inbox, and _send_message asks to send through it.                  *)
_ensure_inbox(c, made) ==
    /\ senders[c].pc = "inboxes.create"
    /\ IF made
       THEN /\ inboxes' = inboxes + 1
            /\ inbox' = inboxes + 1
            /\ SenderStep(c, [senders[c] EXCEPT !.pc = "messages.send", !.inbox = inboxes + 1])
       ELSE /\ UNCHANGED <<inbox, inboxes>>
            /\ SenderStep(c, [senders[c] EXCEPT !.pc = "done", !.outcome = "error"])
    /\ UNCHANGED messages
    /\ MailFrame

(* messages.send answers.                                                  *)
MessageSent(c, sent) ==
    /\ senders[c].pc = "messages.send"
    /\ messages' = IF sent THEN messages \cup {senders[c].inbox} ELSE messages
    /\ SenderStep(c, [senders[c] EXCEPT !.pc = "done",
                                         !.outcome = IF sent THEN "sent" ELSE "error"])
    /\ UNCHANGED <<inbox, inboxes>>
    /\ MailFrame

(* The coroutine returns (or raises) to its caller.                        *)
SenderReturn(c) ==
    /\ senders[c].pc = "done"
    /\ SenderStep(c, IdleSender)
    /\ UNCHANGED <<inbox, inboxes, messages>>
    /\ MailFrame

InitMail ==
    /\ self = SelfInit
    /\ data = NoRecord
    /\ result = NoResult
    /\ remembered = NoMemory
    /\ NoRows
    /\ NoCalls
    /\ NoRequests
    /\ NoServices

NextMail ==
    \E c \in Senders :
        \/ \E valid \in BOOLEAN : _send_message(c, valid)
        \/ \E made \in BOOLEAN : _ensure_inbox(c, made)
        \/ \E sent \in BOOLEAN : MessageSent(c, sent)
        \/ SenderReturn(c)

SpecMail == InitMail /\ [][NextMail]_vars

----------------------------------------------------------------------------
(* Properties of one evaluation (specification Spec).                      *)

Evaluated == result.engine # "none"
Returned == result.status = "ok"
NonNegative(d) == \A f \in UsageFields : d[f].val >= 0
Categories(recs) == [i \in DOMAIN recs |-> recs[i].category]
HasCategory(recs, c) == \E i \in DOMAIN recs : recs[i].category = c

\* C1: for every record with non-negative usage values, whatever fields are
\* present and however large the values, the energy score the engine returns
\* is an integer in the closed range [0, 100].
C1_EnergyScoreInRange ==
    (Returned /\ NonNegative(data)) => result.energy_score \in 0..100

C1_Witness ==
    /\ Returned
    /\ data.electricity = Num(ExtremeUsage)
    /\ data.diet = "Vegan"
    /\ result.energy_score = 80

AllMissing(d) ==
    /\ \A f \in UsageFields : d[f].kind # "num"
    /\ d.diet \in {DietAbsent, DietNull}

\* C2: for a record in which every field is null or absent the engine does
\* not raise and returns carbon_footprint = 0, energy_score = 100 and no
\* recommendations.
C2_AllNullRecord ==
    (Evaluated /\ AllMissing(data)) =>
        /\ Returned
        /\ result.carbon_footprint = 0
        /\ result.energy_score = 100
        /\ result.recommendations = <<>>

HasNegative(d) == \E f \in UsageFields : d[f].kind = "num" /\ d[f].val < 0

\* C3: a record containing a negative usage value is rejected with an
\* InvalidInputError; the engine computes no report from it.
C3_NegativeRejected ==
    (Evaluated /\ HasNegative(data)) => result.status = "InvalidInputError"

FieldOfCategory(c) ==
    CASE c = "energy" -> "electricity"
      [] c = "water" -> "water"
      [] c = "transportation" -> "car_miles"
      [] OTHER -> "diet"

\* C4: the engine never raises for partially-missing data: whatever subset of
\* the fields is null or absent, analysis returns a report, and the report has
\* no recommendation for a missing field.
C4_NeverRaisesOnMissing ==
    (result.engine = "analyzer" /\ NonNegative(data)) =>
        /\ Returned
        /\ \A i \in DOMAIN result.recommendations :
             LET f == FieldOfCategory(result.recommendations[i].category)
             IN  IF f = "diet" THEN data.diet \notin {DietAbsent, DietNull}
                 ELSE data[f].kind = "num"

ClaimedDeduction(cap, entry, baseline) ==
    IF entry.kind # "num" \/ entry.val <= baseline THEN 0
    ELSE Min(cap, (cap * (entry.val - baseline)) \div baseline)

Bonuses(d) ==
    (IF Has(d, "car_miles") /\ Has(d, "public_transport")
       THEN TransportBonus(d.car_miles.val, d.public_transport.val) ELSE 0)
    + (IF d.diet # DietAbsent THEN diet_scores(d.diet) ELSE 0)

ScoreWithDeductions(d, fields) ==
    Max(0, Min(100,
        100
        - (IF "electricity" \in fields THEN ClaimedDeduction(30, d.electricity, 877) ELSE 0)
        - (IF "gas" \in fields THEN ClaimedDeduction(20, d.gas, 63) ELSE 0)
        - (IF "water" \in fields THEN ClaimedDeduction(20, d.water, 7000) ELSE 0)
        + Bonuses(d)))

NoBonus(d) == d.public_transport = Absent /\ d.diet \in {DietAbsent, "Meat Daily"}

OverByMoreThan(entry, baseline, percent) ==
    entry.kind = "num" /\ (entry.val - baseline) * 100 > percent * baseline

\* C9: a recommendation for a category is emitted exactly when the value is
\* more than 10% over the baseline for electricity and car miles, over the
\* baseline at all for water, and the diet is Meat Daily for lifestyle.
C9_RecommendationThresholds ==
    (Returned /\ result.engine = "analyzer") =>
        /\ HasCategory(result.recommendations, "energy")
             <=> OverByMoreThan(data.electricity, 877, 10)
        /\ HasCategory(result.recommendations, "transportation")
             <=> OverByMoreThan(data.car_miles, 1000, 10)
        /\ HasCategory(result.recommendations, "water")
             <=> OverByMoreThan(data.water, 7000, 0)
        /\ HasCategory(result.recommendations, "lifestyle") <=> data.diet = "Meat Daily"

CategoryRank(c) ==
    CASE c = "energy" -> 1
      [] c = "water" -> 2
      [] c = "transportation" -> 3
      [] c = "lifestyle" -> 4
      [] OTHER -> 0

\* C10: the recommendations are emitted in the category order energy, water,
\* transportation, lifestyle, at most one per category.
C10_CategoryOrder ==
    (Returned /\ result.engine = "analyzer") =>
        /\ \A i \in DOMAIN result.recommendations :
             CategoryRank(result.recommendations[i].category) > 0
        /\ \A i, j \in DOMAIN result.recommendations :
             i < j => CategoryRank(result.recommendations[i].category)
                        < CategoryRank(result.recommendations[j].category)

C10_Witness ==
    /\ Returned /\ result.engine = "analyzer"
    /\ Categories(result.recommendations) = <<"energy", "water", "transportation", "lifestyle">>

MissingField(d, c) ==
    IF FieldOfCategory(c) = "diet" THEN d.diet \in {DietAbsent, DietNull}
    ELSE d[FieldOfCategory(c)].kind # "num"

\* C11: a report has no recommendation for a category whose input field is
\* missing: without electricity (water, car_miles, diet) in the record there is
\* no energy (water, transportation, lifestyle) recommendation, whatever the
\* other fields are.
C11_NoRecommendationForMissingField ==
    (Returned /\ result.engine = "analyzer") =>
        \A c \in {"energy", "water", "transportation", "lifestyle"} :
            MissingField(data, c) => ~HasCategory(result.recommendations, c)

C11_Witness ==
    /\ Returned /\ result.engine = "analyzer"
    /\ data.electricity = Absent
    /\ data.water = Num(14000) /\ data.car_miles = Num(1500) /\ data.diet = "Meat Daily"
    /\ Categories(result.recommendations) = <<"water", "transportation", "lifestyle">>

BaselineOf(f) ==
    CASE f = "electricity" -> 877
      [] f = "gas" -> 63
      [] f = "water" -> 7000
      [] f = "car_miles" -> 1000
      [] OTHER -> 150

AllBelowBaseline(d) ==
    \A f \in UsageFields : d[f].kind = "num" => d[f].val < BaselineOf(f)

\* C12: for every record whose usage fields are all below their baselines
\* (and not negative),
\* with any diet value, the recommendation list is empty and the energy score
\* is greater than 50.  As claimed: also when the diet is Meat Daily.
C12_BelowBaselineNoRecommendations ==
    (Returned /\ NonNegative(data) /\ AllBelowBaseline(data)) =>
        /\ result.recommendations = <<>>
        /\ result.energy_score > 50

\* C12 (amended): for every record whose usage fields are all below their
\* baselines (and not negative) the energy score is greater than 50; the recommendation list is
\* empty unless the diet is Meat Daily, and then it holds the plant-based
\* recommendation alone.
C12_BelowBaselineOnlyDiet ==
    (Returned /\ NonNegative(data) /\ AllBelowBaseline(data)) =>
        /\ result.energy_score > 50
        /\ data.diet # "Meat Daily" => result.recommendations = <<>>
        /\ data.diet = "Meat Daily" =>
             /\ Len(result.recommendations) = 1
             /\ result.recommendations[1].title
                  \in {"Consider Plant-Based Meals", "Explore Plant-Based Options"}

C12_Witness ==
    /\ Returned /\ result.engine = "analyzer"
    /\ AllBelowBaseline(data)
    /\ \A f \in UsageFields : data[f] = Num(0)
    /\ data.diet = "Meat Daily"
    /\ Categories(result.recommendations) = <<"lifestyle">>
    /\ result.energy_score = 100

(* The claimed monthly footprint of a record, in units of 0.002 lb: factors *)
(* in hundredths of a pound, the diet multiplier in fifths.                *)
ClaimedFootprint(d) ==
    (Get0(d, "electricity") * 85 + Get0(d, "gas") * 1170
     + Get0(d, "car_miles") * 89 + Get0(d, "public_transport") * 14)
    * diet_multipliers(d.diet)

(* x report units (0.0008 lb) are y claimed units (0.002 lb): 2x = 5y.     *)
SameFootprint(x, y) == x % 5 = 0 /\ y % 2 = 0 /\ x \div 5 = y \div 2

\* C13: the monthly footprint is electricity x 0.85 + gas x 11.7 + car_miles x
\* 0.89 + public_transport x 0.14 pounds over the present fields, times the
\* diet multiplier, over 2000 for tons, and every footprint computation of the
\* repository returns this value for the same record.
C13_OneFootprintFormula ==
    (Returned /\ NonNegative(data)) =>
        SameFootprint(result.carbon_footprint, ClaimedFootprint(data))

----------------------------------------------------------------------------
(* Properties of two evaluations (specification SpecPairs).                *)

DietRank(diet) ==
    CASE diet = "Vegan" -> 1
      [] diet = "Vegetarian" -> 2
      [] diet = "Meat Weekly" -> 3
      [] diet = "Meat Daily" -> 4
      [] OTHER -> 0

SameUsage(a, b) == \A f \in UsageFields : a[f] = b[f]

(* The remembered and the current report come from the same engine variant *)
(* for two records that differ in diet only, the remembered diet lower.    *)
DietPair ==
    /\ Returned
    /\ remembered.result.status = "ok"
    /\ remembered.result.engine = result.engine
    /\ SameUsage(remembered.data, data)
    /\ NonNegative(data)
    /\ DietRank(remembered.data.diet) > 0
    /\ DietRank(remembered.data.diet) < DietRank(data.diet)

\* C6: holding the other fields fixed, footprint(Vegan) < footprint(Vegetarian)
\* < footprint(Meat Weekly) < footprint(Meat Daily), strictly, for every record.
C6_StrictDietMonotonicity ==
    DietPair => remembered.result.carbon_footprint < result.carbon_footprint

\* C6 (amended): the footprint never decreases from Vegan to Vegetarian to
\* Meat Weekly to Meat Daily, and increases strictly exactly when the usage
\* contributes a positive amount of CO2; when every usage field is zero or
\* absent the four footprints are all 0.
C6_DietMonotonicity ==
    DietPair =>
        /\ remembered.result.carbon_footprint <= result.carbon_footprint
        /\ remembered.result.carbon_footprint < result.carbon_footprint
             <=> result.carbon_footprint > 0
        /\ result.carbon_footprint = 0 => remembered.result.carbon_footprint = 0

C6_Witness ==
    /\ DietPair
    /\ remembered.data.diet = "Vegan" /\ data.diet = "Vegetarian"
    /\ data.electricity = Num(1200)
    /\ remembered.result.carbon_footprint < result.carbon_footprint

----------------------------------------------------------------------------
(* Properties of the statistics (specification SpecStats).                 *)

RECURSIVE SumNonNull(_, _)
SumNonNull(rows, f) ==
    IF rows = <<>> THEN 0
    ELSE (IF Head(rows)[f].kind = "num" THEN Head(rows)[f].val ELSE 0)
         + SumNonNull(Tail(rows), f)

CountNonNull(rows, f) == Cardinality({i \in DOMAIN rows : rows[i][f].kind = "num"})

CarbonFactor(f) ==
    CASE f = "electricity" -> 85
      [] f = "gas" -> 1170
      [] f = "car_miles" -> 89
      [] OTHER -> 14

\* C5: the average of a field over a window of records is the sum of the
\* non-null values divided by the number of records in which the field is
\* non-null, not by the number of records in the window.
C5_AverageExcludesNulls ==
    /\ (stats.source = "calculate_user_stats" /\ stats.found) =>
          \A f \in {"electricity", "gas", "car_miles", "public_transport"} :
              CountNonNull(stats.window, f) > 0 =>
                  stats.carbon[f].num * 100 * CountNonNull(stats.window, f)
                      = CarbonFactor(f) * SumNonNull(stats.window, f) * stats.carbon[f].den
    /\ (stats.source = "_get_user_consumption_data" /\ stats.found) =>
          \A f \in {"electricity", "gas", "water", "car_miles"} :
              CountNonNull(stats.window, f) > 0 =>
                  \E tie_up \in BOOLEAN :
                      stats.latest_data[f]
                          = PyRound(100 * SumNonNull(stats.window, f),
                                    CountNonNull(stats.window, f), tie_up)
\* C21: calculate_user_stats averages only over records whose timestamp lies
\* within the trailing 30 days: a record older than 30 days never contributes
\* to the computed carbon footprint, however few records the user has.
C21_ThirtyDayWindow ==
    (stats.source = "calculate_user_stats" /\ stats.found) =>
        \A i \in DOMAIN stats.window : stats.window[i].timestamp >= now - WindowDays

(* The trend of values in chronological order, as claimed.                 *)
ClaimedTrend(chronological) ==
    IF Len(chronological) < 2 THEN "stable"
    ELSE LET h == Len(chronological) \div 2
             k == Len(chronological) - h
             earlier == SumSeq(SubSeq(chronological, 1, h))
             later == SumSeq(SubSeq(chronological, h + 1, Len(chronological)))
         IN  IF (later * h - earlier * k) * 100 > 5 * earlier * k THEN "increasing"
             ELSE IF (later * h - earlier * k) * 100 < -5 * earlier * k THEN "decreasing"
             ELSE "stable"

\* C22: the trend reported for a metric follows chronological direction: over
\* the records of the last 30 days it is 'increasing' exactly when the mean of
\* the chronologically later half of the non-empty values exceeds the mean of
\* the earlier half by more than 5%, 'decreasing' when it is more than 5%
\* lower, and 'stable' otherwise or with fewer than 2 values.  (Stated for
\* records of pairwise different timestamps, whose chronology is unambiguous.)
C22_TrendFollowsTime ==
    (/\ stats.source = "_get_user_consumption_data" /\ stats.found
     /\ \A i, j \in DOMAIN stats.window :
            i < j => stats.window[i].timestamp > stats.window[j].timestamp) =>
        \A f \in {"electricity", "gas", "water", "car_miles"} :
            stats.trends[f] = ClaimedTrend(Reversed(TruthyValues(stats.window, f)))

----------------------------------------------------------------------------
(* Properties of concurrent evaluations (specification SpecThreads).       *)

\* C14: concurrent evaluations need no coordination: no step of an evaluation
\* writes the analyzer's constants, and in every interleaving of the
\* evaluations of several threads each call returns the report it returns when
\* it runs alone.
C14_NoCoordinationNeeded ==
    /\ self = SelfInit
    /\ \A t \in Threads :
         calls[t].pc = "done" => calls[t].result = analyze(SelfInit, calls[t].data)

C14_Witness ==
    /\ calls[1].pc = "done" /\ calls[1].result.status = "ok"
    /\ calls[1].data.electricity = Num(1200)
    /\ calls[1].result.energy_score = 89
    /\ calls[2].pc = "recommendations"
    /\ calls[2].data.electricity = Num(1754)
----------------------------------------------------------------------------
(* Properties of the stored records (specification SpecStore).             *)

IsRequest(route) == response'.route = route /\ clock' = clock

\* C15: a stored consumption record is immutable: after any sequence of
\* add_consumption, dashboard, analytics, analyze and delete_user_data
\* requests, every record that still exists has exactly the field values and
\* the timestamp it was created with.
C15_RecordsImmutable ==
    \A r \in consumption_rows : {c \in created : c.id = r.id} = {r}

C15_Witness ==
    /\ response.route = "delete_user_data" /\ response.status = "success"
    /\ \E r \in consumption_rows :
         /\ r.timestamp < clock
         /\ r.electricity = Num(1200) /\ r.gas = Null /\ r.water = Num(7000)
         /\ r \in created
ClaimedColumn(entry) == IF entry.kind \in {"num", "text"} THEN Num(entry.val) ELSE Null

Fails(body, db_ok) ==
    \/ ~body.json
    \/ \A f \in BodyFields : body[f] = Absent
    \/ UserOf(session.user) = {}
    \/ \E f \in UsageFields : body[f].kind = "bad"
    \/ ~db_ok

----------------------------------------------------------------------------
(* Properties of the session (specification SpecSession).                  *)

ProtectedRoutes ==
    PageRoutes \cup {"dashboard", "analytics", "analyze", "add_consumption",
                     "delete_user_data", "get_insights"}

LoggedIn == session.user # NoUser /\ clock - LastLogin(session) <= 24 * 60 * 60

\* C16: for every route behind a login_required decorator the handler body
\* runs only if the session holds 'user' and last_login is at most 24 hours
\* old; otherwise the request is redirected to the login page, and a session
\* older than 24 hours (or without last_login) is cleared before the redirect.
C16_LoginRequired ==
    [][\A route \in ProtectedRoutes :
          IsRequest(route) =>
              /\ response'.ran => LoggedIn
              /\ ~LoggedIn =>
                    /\ response'.status = "redirect:login"
                    /\ session.user # NoUser => session' = EmptySession]_vars

(* What login() does at time clock about a hit recorded at time hit.       *)
WindowHonoured(hit) ==
    /\ clock - hit < 60 =>
          /\ response'.status = "Rate Limit Active"
          /\ "authorize_redirect" \notin response'.called
    /\ clock - hit >= 60 =>
          /\ "authorize_redirect" \in response'.called
          /\ \/ session'.rate_limit_hit = Absent
             \/ /\ response'.status = "Rate Limit Exceeded"
                /\ session'.rate_limit_hit = Num(clock)

C18_CallbackAllOrNothing ==
    [][IsRequest("callback") =>
       \A code, error \in BOOLEAN, token, userinfo \in AuthOutcomes, sub \in Subs :
          callback(code, error, token, userinfo, sub) =>
              IF code /\ ~error /\ token = "ok" /\ userinfo = "ok"
              THEN /\ session' = [user |-> sub, last_login |-> Num(clock),
                                  rate_limit_hit |-> Absent]
                   /\ response'.status = "redirect:dashboard"
                   /\ response'.called = {"get_token", "get_userinfo"}
              ELSE /\ session' = session
                   /\ response'.status \in {"Authentication Error", "Rate Limit Exceeded"}]_vars

C18_Witness ==
    /\ response.route = "callback" /\ response.status = "Rate Limit Exceeded"
    /\ response.called = {"get_token", "get_userinfo"}
    /\ session.user = "auth0|a"
    /\ session.last_login.val < clock

----------------------------------------------------------------------------
(* Properties of a chat response (specification SpecChat).                 *)

(* The first text among the answers to the first n send_message calls.     *)
FirstText(n) ==
    LET with_text == {i \in 1..n : gemini[i] \in GeminiTexts}
    IN  IF with_text = {} THEN 0 ELSE CHOOSE i \in with_text : \A j \in with_text : i <= j

ChatSafe ==
    /\ chat.sent <= max_retries
    /\ ~chat.raised
    /\ \A i \in DOMAIN chat.events :
          chat.events[i] = "sleep" =>
              /\ i > 1 /\ chat.events[i - 1] = "send_message"
              /\ (chat.pc = "done" => i < Len(chat.events))
    /\ \A i \in DOMAIN chat.events :
          (chat.events[i] = "send_message" /\ i > 1) => chat.events[i - 1] = "sleep"
    /\ chat.pc = "done" =>
          /\ chat.returned \in GeminiTexts \cup {Apology, ErrorText}
          /\ chat.sent > 0 =>
                LET first == FirstText(max_retries)
                IN  IF first > 0
                    THEN chat.sent = first /\ chat.returned = gemini[first]
                    ELSE chat.sent = max_retries /\ chat.returned \notin GeminiTexts

\* C23: _generate_chat_response makes at most 3 generation attempts for one
\* request, whatever mix of empty responses and exceptions the model produces;
\* it returns the text of the first non-empty response without further
\* attempts, waits between attempts but not after the last one, and always
\* terminates by returning a string (it never raises).
C23_BoundedRetries == []ChatSafe /\ <>(chat.pc = "done")

C23_Witness ==
    /\ chat.pc = "done"
    /\ chat.events = <<"send_message", "sleep", "send_message", "sleep", "send_message">>
    /\ gemini[1] = "" /\ gemini[2] = "exception"
    /\ chat.returned = gemini[3] /\ gemini[3] \in GeminiTexts

----------------------------------------------------------------------------
(* Properties of the page runs (specification SpecPages).                  *)

----------------------------------------------------------------------------
(* Properties of the agent thread (specification SpecAgent).               *)

Alive == {t \in DOMAIN agent_threads : agent_threads[t] = "alive"}

\* C25: for any sequence of start() and stop() calls on one EcoAgent (start,
\* stop, start for one), at most one agent thread created by that instance is
\* alive at any time, and after stop() returns no agent thread of that
\* instance is still running.
C25_OneAgentThread ==
    /\ Cardinality(Alive) <= 1
    /\ agent_call.op = "stop" => Alive = {}

----------------------------------------------------------------------------
(* Properties of the mail client (specification SpecMail).                 *)

\* C26: one AgentMailClient creates at most one inbox over its lifetime, for
\* every interleaving of concurrent send_report / send_eco_tips /
\* send_reminder coroutines, and every message it sends uses that single inbox.
C26_SingleInbox ==
    /\ inboxes <= 1
    /\ \A m \in messages : m = inbox

====
